---- MODULE Spec2Model ----
\* Model of binary_to_3d.py: the three bit-to-coordinate placement strategies
\* and the binary_to_3d driver that writes the listing.
EXTENDS Integers, Sequences, FiniteSets, TLC

\* ---------------------------------------------------------------- bounds
MaxBytes == 2
MaxDim == 2
MaxCapacity == 8
MaxAssignCapacity == 4

\* byte values the input file is built from (0xB0, 0x4D)
ByteValues == {176, 77}

\* dimension values, including the non-positive ones the code never validates
DimValues == {-1, 0} \cup (1..MaxDim)

Modes == {"sequential", "random_positions", "random_assignment"}

\* mapping_mode values a caller may pass, one of them unknown
ModeValues == Modes \cup {"spiral"}

\* listing left in the output file by an earlier run
PriorContent == << <<0, 0, 0, 1>> >>

VARIABLES input_found, binary_data, output_file, dimensions, mapping_mode,
          fill_empty, default_bit, out_file, pc, ret, result, last_byte_idx,
          total_bytes, all_coords, draws, out_lines, warning

vars == <<input_found, binary_data, output_file, dimensions, mapping_mode,
          fill_empty, default_bit, out_file, pc, ret, result, last_byte_idx,
          total_bytes, all_coords, draws, out_lines, warning>>

inputs == <<input_found, binary_data, output_file, dimensions, mapping_mode,
            fill_empty, default_bit>>

\* ---------------------------------------------------------------- arithmetic
\* floor division by a positive divisor
FloorDivPos(a, b) == IF a >= 0 THEN a \div b ELSE -(((-a) + b - 1) \div b)

\* Python's // for a non-zero divisor
PyFloorDiv(a, b) == IF b > 0 THEN FloorDivPos(a, b) ELSE FloorDivPos(-a, -b)

\* Python's % for a non-zero divisor (the result has the divisor's sign)
PyMod(a, b) == a - b * PyFloorDiv(a, b)

Pow2(n) == IF n = 0 THEN 1 ELSE IF n = 1 THEN 2 ELSE IF n = 2 THEN 4
           ELSE IF n = 3 THEN 8 ELSE IF n = 4 THEN 16 ELSE IF n = 5 THEN 32
           ELSE IF n = 6 THEN 64 ELSE 128

\* bit = (byte >> (7 - bit_idx)) & 1
ExtractBit(byte, bit_idx) == (byte \div Pow2(7 - bit_idx)) % 2

\* total_positions = max_x * max_y * max_z
TotalPositions(dims) == dims[1] * dims[2] * dims[3]

DecodeYFirst(position, dims) ==
    << PyMod(PyFloorDiv(position, dims[2]), dims[1]),
       PyMod(position, dims[2]),
       PyFloorDiv(position, dims[1] * dims[2]) >>

\* x = position % max_x; y = (position // max_x) % max_y; z = position // (max_x * max_y)
Decode(position, dims) ==
    << PyMod(position, dims[1]),
       PyMod(PyFloorDiv(position, dims[1]), dims[2]),
       PyFloorDiv(position, dims[1] * dims[2]) >>

\* ---------------------------------------------------------------- sequential
SpaceFilledLate(bit_position, total_positions) == bit_position > total_positions

\* if bit_position >= total_positions: return
SpaceFilled(bit_position, total_positions) == bit_position >= total_positions

RECURSIVE SequentialLoop(_, _, _, _)
\* the byte/bit loop of binary_to_3d_sequential from bit number bit_position on
SequentialLoop(data, dims, bit_position, res) ==
    LET tp == TotalPositions(dims)
        byte_idx == bit_position \div 8
        bit_idx == bit_position % 8
    IN  IF bit_position >= 8 * Len(data)
        THEN [raised |-> "none", early |-> FALSE, result |-> res,
              bit_position |-> bit_position, byte_idx |-> Len(data) - 1]
        ELSE IF tp = 0
        THEN [raised |-> "ZeroDivisionError", early |-> FALSE, result |-> res,
              bit_position |-> bit_position, byte_idx |-> byte_idx]
        ELSE LET bit == ExtractBit(data[byte_idx + 1], bit_idx)
                 position == PyMod(bit_position, tp)
                 res2 == Append(res, Decode(position, dims) \o <<bit>>)
             IN  IF SpaceFilled(bit_position + 1, tp)
                 THEN [raised |-> "none", early |-> TRUE, result |-> res2,
                       bit_position |-> bit_position + 1, byte_idx |-> byte_idx]
                 ELSE SequentialLoop(data, dims, bit_position + 1, res2)

\* for position in range(bit_position, total_positions): append default_bit
SequentialFill(dims, bit_position, dflt) ==
    LET tp == TotalPositions(dims)
    IN  IF bit_position < tp
        THEN [k \in 1..(tp - bit_position) |->
                 Decode(bit_position + k - 1, dims) \o <<dflt>>]
        ELSE <<>>

binary_to_3d_sequential(data, dims, fill, dflt) ==
    LET l == SequentialLoop(data, dims, 0, <<>>)
    IN  IF l.raised # "none"
        THEN [raised |-> l.raised, result |-> <<>>, last_byte_idx |-> 0,
              total_bytes |-> 0]
        ELSE IF l.early
        THEN [raised |-> "none", result |-> l.result,
              last_byte_idx |-> l.byte_idx, total_bytes |-> Len(data)]
        ELSE [raised |-> "none",
              result |-> IF fill /\ l.bit_position < TotalPositions(dims)
                         THEN l.result \o SequentialFill(dims, l.bit_position, dflt)
                         ELSE l.result,
              last_byte_idx |-> Len(data) - 1, total_bytes |-> Len(data)]

\* ---------------------------------------------------------------- random source
\* values of j = randbelow(i + 1) taken in the shuffle: the two ends of its range
RandBelow(n) == {0, n - 1}

\* values random.randint(a, b) may return (empty when b < a: ValueError)
RandInt(a, b) == a..b

\* list(product(range(max_x), range(max_y), range(max_z))): z varies fastest
Product(dims) ==
    IF dims[1] <= 0 \/ dims[2] <= 0 \/ dims[3] <= 0 THEN <<>>
    ELSE [k \in 1..(dims[1] * dims[2] * dims[3]) |->
             << (k - 1) \div (dims[2] * dims[3]),
                ((k - 1) \div dims[3]) % dims[2],
                (k - 1) % dims[3] >>]

SwapLossy(x, i, j) == [x EXCEPT ![i] = x[j]]

\* x[i], x[j] = x[j], x[i]
Swap(x, i, j) == [x EXCEPT ![i] = x[j], ![j] = x[i]]

RECURSIVE ShuffleFrom(_, _)
\* random.shuffle: for i in reversed(range(1, len(x))): j = randbelow(i + 1); swap
ShuffleFrom(x, i) ==
    IF i < 1 THEN {x}
    ELSE UNION {ShuffleFrom(Swap(x, i + 1, j + 1), i - 1) : j \in RandBelow(i + 1)}

Shuffles(x) == ShuffleFrom(x, Len(x) - 1)

\* ---------------------------------------------------------------- random_positions
RECURSIVE RandomPositionsLoop(_, _, _, _)
\* the byte/bit loop of binary_to_3d_random_positions from bit number k on
RandomPositionsLoop(data, coords, k, res) ==
    LET byte_idx == k \div 8
        bit_idx == k % 8
    IN  IF k >= 8 * Len(data)
        THEN [early |-> FALSE, result |-> res, bit_position |-> k,
              byte_idx |-> Len(data) - 1]
        ELSE LET bit == ExtractBit(data[byte_idx + 1], bit_idx)
             IN  IF k < Len(coords)
                 THEN RandomPositionsLoop(data, coords, k + 1,
                                          Append(res, coords[k + 1] \o <<bit>>))
                 ELSE [early |-> TRUE, result |-> res, bit_position |-> k,
                       byte_idx |-> byte_idx]

binary_to_3d_random_positions(data, coords, fill, dflt) ==
    LET l == RandomPositionsLoop(data, coords, 0, <<>>)
    IN  IF l.early
        THEN [raised |-> "none", result |-> l.result,
              last_byte_idx |-> l.byte_idx, total_bytes |-> Len(data)]
        ELSE [raised |-> "none",
              result |-> IF fill /\ l.bit_position < Len(coords)
                         THEN l.result \o
                              [k \in 1..(Len(coords) - l.bit_position) |->
                                  coords[l.bit_position + k] \o <<dflt>>]
                         ELSE l.result,
              last_byte_idx |-> Len(data) - 1, total_bytes |-> Len(data)]

\* ---------------------------------------------------------------- random_assignment
DictHas(d, key) == \E i \in 1..Len(d) : d[i][1] = key

DictIndex(d, key) == CHOOSE i \in 1..Len(d) : d[i][1] = key

DictStoreFirstWins(d, key, bit) ==
    IF DictHas(d, key) THEN d ELSE Append(d, <<key, bit>>)

\* result_dict[(x, y, z)] = bit, on a dict kept in insertion order
DictStore(d, key, bit) ==
    IF DictHas(d, key) THEN [d EXCEPT ![DictIndex(d, key)] = <<key, bit>>]
    ELSE Append(d, <<key, bit>>)

\* result_dict.get(key, default_bit)
DictGet(d, key, dflt) == IF DictHas(d, key) THEN d[DictIndex(d, key)][2] ELSE dflt

DrawLimitReachedLate(bit_count, total_positions) == bit_count > total_positions

\* if bit_count >= total_positions: break (out of both loops)
DrawLimitReached(bit_count, total_positions) == bit_count >= total_positions

\* the coordinates one round of three random.randint calls may produce
RandCoords(dims) ==
    {<<x, y, z>> : x \in RandInt(0, dims[1] - 1), y \in RandInt(0, dims[2] - 1),
                   z \in RandInt(0, dims[3] - 1)}

RECURSIVE AssignmentLoop(_, _, _, _, _)
\* the draw loop of binary_to_3d_random_assignment: every run it can take
AssignmentLoop(data, dims, bit_count, d, drawn) ==
    LET byte_idx == bit_count \div 8
        bit_idx == bit_count % 8
    IN  IF bit_count >= 8 * Len(data)
        THEN {[raised |-> "none", result_dict |-> d, draws |-> drawn]}
        ELSE IF RandCoords(dims) = {}
        THEN {[raised |-> "ValueError", result_dict |-> d, draws |-> drawn]}
        ELSE UNION {
               LET bit == ExtractBit(data[byte_idx + 1], bit_idx)
                   d2 == DictStore(d, c, bit)
                   drawn2 == Append(drawn, c)
               IN  IF DrawLimitReached(bit_count + 1, TotalPositions(dims))
                   THEN {[raised |-> "none", result_dict |-> d2, draws |-> drawn2]}
                   ELSE AssignmentLoop(data, dims, bit_count + 1, d2, drawn2)
               : c \in RandCoords(dims)}

\* every return (or exception) of binary_to_3d_random_assignment, with its draws
binary_to_3d_random_assignment(data, dims, fill, dflt) ==
    {IF l.raised # "none"
     THEN [raised |-> l.raised, result |-> <<>>, last_byte_idx |-> 0,
           total_bytes |-> 0, draws |-> l.draws]
     ELSE [raised |-> "none",
           result |-> IF fill
                      THEN [k \in 1..Len(Product(dims)) |->
                               Product(dims)[k] \o
                               <<DictGet(l.result_dict, Product(dims)[k], dflt)>>]
                      ELSE [k \in 1..Len(l.result_dict) |->
                               l.result_dict[k][1] \o <<l.result_dict[k][2]>>],
           last_byte_idx |-> Len(data) - 1, total_bytes |-> Len(data),
           draws |-> l.draws]
     : l \in AssignmentLoop(data, dims, 0, <<>>, <<>>)}

\* ---------------------------------------------------------------- driver
SortKeyXYZ(item) == <<item[1], item[2], item[3]>>

\* key=lambda item: (item[2], item[1], item[0])
SortKey(item) == <<item[3], item[2], item[1]>>

\* tuple comparison a < b
TupleLess(a, b) ==
    \/ a[1] < b[1]
    \/ a[1] = b[1] /\ a[2] < b[2]
    \/ a[1] = b[1] /\ a[2] = b[2] /\ a[3] < b[3]

RECURSIVE InsertSorted(_, _)
\* place item after every element of the sorted list s whose key is not greater
InsertSorted(s, item) ==
    IF s = <<>> THEN <<item>>
    ELSE IF TupleLess(SortKey(item), SortKey(Head(s)))
    THEN <<item>> \o s
    ELSE <<Head(s)>> \o InsertSorted(Tail(s), item)

RECURSIVE SortPrefix(_, _)
SortPrefix(s, n) == IF n = 0 THEN <<>> ELSE InsertSorted(SortPrefix(s, n - 1), s[n])

\* result.sort(key=...): stable, ascending by key
SortResult(s) == SortPrefix(s, Len(s))

\* if last_byte_idx < total_bytes - 1 and not fill_empty: print warning
WarnTruncated(lbi, tb, fill) == lbi < tb - 1 /\ ~fill

\* open(output_file, 'w') if output_file else sys.stdout, then the lines written
OpenAndWrite(lines) ==
    IF output_file THEN [exists |-> TRUE, lines |-> lines] ELSE out_file

Init ==
    /\ input_found \in BOOLEAN
    /\ binary_data \in UNION {[1..n -> ByteValues] : n \in 0..MaxBytes}
    /\ input_found = FALSE => binary_data = <<>>
    /\ output_file \in BOOLEAN
    /\ dimensions \in DimValues \X DimValues \X DimValues
    /\ mapping_mode \in ModeValues
    /\ TotalPositions(dimensions) <=
          (IF mapping_mode = "random_assignment" THEN MaxAssignCapacity
           ELSE MaxCapacity)
    /\ fill_empty \in BOOLEAN
    /\ default_bit \in {0, 1}
    /\ out_file \in {[exists |-> FALSE, lines |-> <<>>],
                     [exists |-> TRUE, lines |-> PriorContent]}
    /\ output_file = FALSE => out_file.exists = FALSE
    /\ pc = "start"
    /\ ret = "none"
    /\ result = <<>>
    /\ last_byte_idx = 0
    /\ total_bytes = 0
    /\ all_coords = <<>>
    /\ draws = <<>>
    /\ out_lines = <<>>
    /\ warning = FALSE

\* lines 215-223: the input file cannot be read
InputNotFound ==
    /\ pc = "start"
    /\ ~input_found
    /\ pc' = "SystemExit"
    /\ UNCHANGED <<inputs, out_file, ret, result, last_byte_idx, total_bytes,
                   all_coords, draws, out_lines, warning>>

\* lines 239-264 after a strategy call r: sort, write, warn, summary
Emit(r, sorted) ==
    IF r.raised # "none"
    THEN /\ pc' = r.raised
         /\ ret' = r.raised
         /\ out_file' = OpenAndWrite(<<>>)
         /\ UNCHANGED <<result, last_byte_idx, total_bytes, out_lines, warning>>
    ELSE /\ ret' = "returned"
         /\ result' = r.result
         /\ last_byte_idx' = r.last_byte_idx
         /\ total_bytes' = r.total_bytes
         /\ out_lines' = (IF sorted THEN SortResult(r.result) ELSE r.result)
         /\ out_file' = OpenAndWrite(out_lines')
         /\ warning' = WarnTruncated(r.last_byte_idx, r.total_bytes, fill_empty)
         /\ pc' = (IF TotalPositions(dimensions) = 0 THEN "ZeroDivisionError"
                   ELSE "returned")

MapSequential ==
    /\ pc = "start"
    /\ input_found
    /\ mapping_mode = "sequential"
    /\ Emit(binary_to_3d_sequential(binary_data, dimensions, fill_empty, default_bit),
            FALSE)
    /\ UNCHANGED <<inputs, all_coords, draws>>

MapRandomPositions ==
    /\ pc = "start"
    /\ input_found
    /\ mapping_mode = "random_positions"
    /\ \E coords \in Shuffles(Product(dimensions)) :
          /\ all_coords' = coords
          /\ Emit(binary_to_3d_random_positions(binary_data, coords, fill_empty,
                                                default_bit), TRUE)
    /\ UNCHANGED <<inputs, draws>>

MapRandomAssignment ==
    /\ pc = "start"
    /\ input_found
    /\ mapping_mode = "random_assignment"
    /\ \E r \in binary_to_3d_random_assignment(binary_data, dimensions, fill_empty,
                                               default_bit) :
          /\ draws' = r.draws
          /\ Emit(r, TRUE)
    /\ UNCHANGED <<inputs, all_coords>>

\* lines 226, 235-237: the output file is opened, then the mode is rejected
UnknownMode ==
    /\ pc = "start"
    /\ input_found
    /\ mapping_mode \notin Modes
    /\ out_file' = OpenAndWrite(<<>>)
    /\ pc' = "SystemExit"
    /\ UNCHANGED <<inputs, ret, result, last_byte_idx, total_bytes, all_coords,
                   draws, out_lines, warning>>

Next ==
    \/ InputNotFound
    \/ MapSequential
    \/ MapRandomPositions
    \/ MapRandomAssignment
    \/ UnknownMode

Spec == Init /\ [][Next]_vars

\* ---------------------------------------------------------------- properties
Positive(dims) == dims[1] > 0 /\ dims[2] > 0 /\ dims[3] > 0

Min(a, b) == IF a < b THEN a ELSE b

\* Capacity and the number of input bits of the current call
Cap == TotalPositions(dimensions)

NBits == 8 * Len(binary_data)

\* the coordinates of the grid
Grid == {<<x, y, z>> : x \in 0..(dimensions[1] - 1), y \in 0..(dimensions[2] - 1),
                       z \in 0..(dimensions[3] - 1)}

\* bit i (from 0) of the input, most significant bit of each byte first
MsbBit(i) ==
    LET byte == binary_data[(i \div 8) + 1]
        k == i % 8
    IN  IF k = 0 THEN byte \div 128
        ELSE IF k = 1 THEN (byte \div 64) % 2
        ELSE IF k = 2 THEN (byte \div 32) % 2
        ELSE IF k = 3 THEN (byte \div 16) % 2
        ELSE IF k = 4 THEN (byte \div 8) % 2
        ELSE IF k = 5 THEN (byte \div 4) % 2
        ELSE IF k = 6 THEN (byte \div 2) % 2
        ELSE byte % 2

Coord(item) == <<item[1], item[2], item[3]>>

\* the entries of the returned result at coordinate c
EntriesAt(c) == {k \in 1..Len(result) : Coord(result[k]) = c}

\* row-major coordinate of linear index i, x fastest
RowMajor(i) == << i % dimensions[1], (i \div dimensions[1]) % dimensions[2],
                  i \div (dimensions[1] * dimensions[2]) >>

\* coordinate c received an input bit in the call that returned
ReceivedBit(c) ==
    IF mapping_mode = "sequential"
    THEN \E i \in 0..(Min(NBits, Cap) - 1) : RowMajor(i) = c
    ELSE IF mapping_mode = "random_positions"
    THEN \E i \in 1..Min(NBits, Cap) : all_coords[i] = c
    ELSE \E k \in 1..Len(draws) : draws[k] = c

StrategyReturned(mode) ==
    ret = "returned" /\ mapping_mode = mode /\ Positive(dimensions)

\* C1: every strategy returns at most Capacity entries; with fill_empty exactly
\* Capacity entries, one per grid coordinate, and every coordinate that received
\* no input bit carries default_bit.
C1_CapacityInvariant ==
    (ret = "returned" /\ Positive(dimensions)) =>
        /\ Len(result) <= Cap
        /\ fill_empty =>
              /\ Len(result) = Cap
              /\ \A c \in Grid : Cardinality(EntriesAt(c)) = 1
              /\ \A k \in 1..Len(result) :
                    ~ReceivedBit(Coord(result[k])) => result[k][4] = default_bit

C1_Witness ==
    /\ StrategyReturned("random_assignment")
    /\ fill_empty
    /\ default_bit = 1
    /\ Cap = 4
    /\ Len(binary_data) = 1
    /\ \E c \in Grid : ~ReceivedBit(c)
    /\ Len(result) = 4

\* C2: the sequential strategy places bit i (MSB first) at the row-major
\* coordinate of index i for i < min(n, C), places nothing at or beyond C, fills
\* indices n..C-1 with default_bit when fill_empty, and otherwise returns exactly
\* min(n, C) entries; bytes [0xB0] on a 2x2x2 grid give bits 1,0,1,1,0,0,0,0.
C2_SequentialLayout ==
    StrategyReturned("sequential") =>
        /\ \A i \in 0..(Min(NBits, Cap) - 1) :
              result[i + 1] = RowMajor(i) \o <<MsbBit(i)>>
        /\ Len(result) <= Cap
        /\ (fill_empty /\ NBits < Cap) =>
              /\ Len(result) = Cap
              /\ \A i \in NBits..(Cap - 1) :
                    result[i + 1] = RowMajor(i) \o <<default_bit>>
        /\ ~fill_empty => Len(result) = Min(NBits, Cap)
        /\ (binary_data = <<176>> /\ dimensions = <<2, 2, 2>> /\ fill_empty
            /\ default_bit = 0) =>
              result = << <<0, 0, 0, 1>>, <<1, 0, 0, 0>>, <<0, 1, 0, 1>>,
                          <<1, 1, 0, 1>>, <<0, 0, 1, 0>>, <<1, 0, 1, 0>>,
                          <<0, 1, 1, 0>>, <<1, 1, 1, 0>> >>

C2_Witness ==
    /\ StrategyReturned("sequential")
    /\ binary_data = <<176>>
    /\ dimensions = <<2, 2, 2>>
    /\ fill_empty
    /\ default_bit = 0
    /\ Len(result) = 8
    /\ result[4] = <<1, 1, 0, 1>>

\* C3: the random_positions strategy never puts two entries on one coordinate,
\* bit i of the input is the value at the i-th coordinate of the shuffled list,
\* and with fill_empty every grid coordinate appears exactly once.
C3_NoCollision ==
    StrategyReturned("random_positions") =>
        /\ \A j, k \in 1..Len(result) :
              j # k => Coord(result[j]) # Coord(result[k])
        /\ \A i \in 0..(Min(NBits, Cap) - 1) :
              result[i + 1] = all_coords[i + 1] \o <<MsbBit(i)>>
        /\ fill_empty => \A c \in Grid : Cardinality(EntriesAt(c)) = 1

C3_Witness ==
    /\ StrategyReturned("random_positions")
    /\ Cap = 8
    /\ Len(binary_data) = 2
    /\ all_coords # Product(dimensions)
    /\ Len(result) = 8

\* C4 (as stated): on a 1x1x1 grid with an input whose first two bits differ, two
\* draws land on (0,0,0) and the recorded bit is the second input bit.
C4_SecondBitWins ==
    (StrategyReturned("random_assignment") /\ dimensions = <<1, 1, 1>>
     /\ Len(binary_data) >= 1 /\ MsbBit(0) # MsbBit(1)) =>
        /\ Len(draws) = 2
        /\ \A k \in 1..Len(result) : result[k][4] = MsbBit(1)

\* C4 (amended): on a 1x1x1 grid with a non-empty input exactly one draw is made,
\* it lands on (0,0,0), and the recorded bit is the first input bit.
C4_FirstBitOnly ==
    (StrategyReturned("random_assignment") /\ dimensions = <<1, 1, 1>>
     /\ Len(binary_data) >= 1) =>
        /\ draws = << <<0, 0, 0>> >>
        /\ result = << <<0, 0, 0, MsbBit(0)>> >>

C4_Witness ==
    /\ StrategyReturned("random_assignment")
    /\ dimensions = <<1, 1, 1>>
    /\ binary_data = <<176, 77>>
    /\ result = << <<0, 0, 0, 1>> >>

\* the draws that landed on coordinate c
DrawsAt(c) == {k \in 1..Len(draws) : draws[k] = c}

LastDrawAt(c) == CHOOSE k \in DrawsAt(c) : \A j \in DrawsAt(c) : j <= k

\* C5: the random_assignment strategy makes exactly min(n, C) draws, the k-th
\* draw records the k-th input bit, every drawn coordinate ends with the bit of
\* the last draw on it; with fill_empty every never-drawn coordinate holds
\* default_bit, without it the result holds exactly the drawn coordinates, once each.
C5_ReplayWithOverwrite ==
    StrategyReturned("random_assignment") =>
        /\ Len(draws) = Min(NBits, Cap)
        /\ \A k \in 1..Len(draws) : draws[k] \in Grid
        /\ \A c \in Grid :
              DrawsAt(c) # {} =>
                 /\ Cardinality(EntriesAt(c)) = 1
                 /\ \A k \in EntriesAt(c) : result[k][4] = MsbBit(LastDrawAt(c) - 1)
        /\ fill_empty =>
              \A c \in Grid :
                 DrawsAt(c) = {} =>
                    /\ Cardinality(EntriesAt(c)) = 1
                    /\ \A k \in EntriesAt(c) : result[k][4] = default_bit
        /\ ~fill_empty =>
              /\ {Coord(result[k]) : k \in 1..Len(result)} =
                    {draws[k] : k \in 1..Len(draws)}
              /\ Len(result) = Cardinality({draws[k] : k \in 1..Len(draws)})

C5_Witness ==
    /\ StrategyReturned("random_assignment")
    /\ ~fill_empty
    /\ Len(draws) = 4
    /\ draws[1] = draws[2]
    /\ draws[3] # draws[1]
    /\ draws[4] # draws[1]
    /\ MsbBit(0) # MsbBit(1)
    /\ Len(result) < 4

\* C6: whenever the input holds more bits than Capacity, the strategy's returned
\* pair signals truncation (last_byte_idx < total_bytes - 1) and binary_to_3d
\* prints the warning, in every mode and whatever fill_empty is.
C6_TruncationReported ==
    (ret = "returned" /\ Positive(dimensions) /\ NBits > Cap) =>
        /\ last_byte_idx < total_bytes - 1
        /\ warning

\* C7: a call with an unknown mapping_mode leaves the output file as it was:
\* neither created nor truncated.
C7_NoPartialOutput ==
    [][(pc = "start" /\ input_found /\ mapping_mode \notin Modes
        /\ Positive(dimensions)) =>
          out_file' = out_file]_vars

\* C8: a dimension triple with a zero or negative value is rejected with an
\* error by every strategy, for every input, without returning a result.
C8_DimensionsRejected ==
    (pc # "start" /\ input_found /\ mapping_mode \in Modes
     /\ ~Positive(dimensions)) =>
        ret \in {"ZeroDivisionError", "ValueError"}

\* key order of two listing lines: (z, y, x) strictly ascending
ZYXLess(a, b) ==
    \/ a[3] < b[3]
    \/ a[3] = b[3] /\ a[2] < b[2]
    \/ a[3] = b[3] /\ a[2] = b[2] /\ a[1] < b[1]

\* C9: the listing binary_to_3d emits is strictly ascending by (z, y, x) with one
\* line per populated coordinate in every mode; the sequential result is emitted
\* unsorted and sorting it would leave it unchanged.
C9_ListingSorted ==
    (ret = "returned" /\ Positive(dimensions)) =>
        /\ \A k \in 1..(Len(out_lines) - 1) : ZYXLess(out_lines[k], out_lines[k + 1])
        /\ Len(out_lines) = Len(result)
        /\ {out_lines[k] : k \in 1..Len(out_lines)} =
              {result[k] : k \in 1..Len(result)}
        /\ output_file => out_file = [exists |-> TRUE, lines |-> out_lines]
        /\ mapping_mode = "sequential" =>
              (out_lines = result /\ SortResult(result) = result)

C9_Witness ==
    /\ StrategyReturned("random_positions")
    /\ output_file
    /\ Len(out_lines) = 8
    /\ out_lines # result
    /\ out_file.lines = out_lines

\* C10: random_positions and sequential return results of the same length with
\* the same bit values in the same order, and the same diagnostic pair
\* (last consumed byte index, total byte count).
C10_SameSemantics ==
    StrategyReturned("random_positions") =>
        LET s == binary_to_3d_sequential(binary_data, dimensions, fill_empty,
                                         default_bit)
        IN  /\ Len(result) = Len(s.result)
            /\ \A k \in 1..Len(result) : result[k][4] = s.result[k][4]
            /\ last_byte_idx = s.last_byte_idx
            /\ total_bytes = s.total_bytes
====
